---- MODULE Spec2Model ----
(***************************************************************************)
(* State-machine model of the client-side scripts of the workspace         *)
(* dashboard: src/templates/scripts.py (MAIN_PAGE_JS and DETAIL_PAGE_JS).  *)
(*                                                                         *)
(* The browser runs the scripts single-threaded: every event handler, and  *)
(* every continuation of an async function after an await, runs to         *)
(* completion before the next one starts.  Each action below is one such   *)
(* run.  User events and network events carry no timing constraint, so     *)
(* they interleave freely.                                                 *)
(*                                                                         *)
(* Several specifications share the variables; each one exercises one      *)
(* part of a page and leaves the other parts in their page-load state:     *)
(*   SpecRefresh   the auto-refresh timer of both pages, the terminal      *)
(*                 session and the tailing log stream of the detail page   *)
(*   SpecDelete    the two-click delete control and its 3 s disarm timer   *)
(*   SpecAction    the Start/Stop button and the create bar                *)
(*   SpecBulk      the row checkboxes and the bulk-action bar              *)
(*   SpecPoll      the creation-log poll of the detail page of a workspace *)
(*                 that is being created                                   *)
(*                                                                         *)
(* Where a claim is about durations, time is counted in ticks of 1000       *)
(* milliseconds: every setTimeout carries the ticks left until it is due,  *)
(* Tick lets one tick pass, and no tick passes while a timeout is due.     *)
(***************************************************************************)
EXTENDS Integers, Sequences, FiniteSets, TLC

VARIABLES
  \* ---- the page and the pointer
  page,           \* "main" (MAIN_PAGE_JS) or "detail" (DETAIL_PAGE_JS)
  pointerDown,    \* environment: the last pointer event was a mousedown
  ev,             \* history: the name of the last handler that ran
  \* ---- auto-refresh
  timers,         \* the live setInterval timers of the page (their ids)
  rt,             \* MAIN_PAGE_JS `rt`: the handle of the refresh timer (0: no such variable)
  detailRefresh,  \* DETAIL_PAGE_JS `detailRefresh` (0: no such variable)
  \* ---- terminal (detail page of a running workspace)
  termWs,         \* the socket `termWs` refers to, 0 for null
  termObj,        \* TRUE iff `termObj` holds a Terminal (not null)
  sockets,        \* the state of every WebSocket object created by the page
  connectBtn,     \* style.display of #term-connect-btn: "" (shown) or "none"
  disconnectBtn,  \* style.display of #term-disconnect-btn
  termStatus,     \* textContent of #term-status
  lastTermCall,   \* history: the last of connectTerminal (opening a socket) / disconnectTerminal to run
  \* ---- tailing log stream (detail page of a running workspace)
  evtSource,      \* the EventSource `evtSource` refers to, 0 for null
  streams,        \* the EventSource objects that are open
  logBtn,         \* textContent of #log-stream-btn
  logStatus,      \* textContent of #log-status
  \* ---- toast and scheduled reloads (both pages)
  toast,          \* #toast: [display, text, cls]
  toastTimers,    \* pending hide timeouts of showToast: ticks left, in the order set
  reloadTimers,   \* pending setTimeout(reload) of the actions: [by, delay, left, target]
  \* ---- delete control (one Delete button; both pages)
  deleteBtn,      \* [armed, text, cls, disabled]: dataset.armed, textContent, className, disabled
  disarmTimers,   \* pending disarm timeouts of confirmDelete: ticks left, in the order set
  deleteReqs,     \* doDelete calls awaiting the answer of /api/delete
  sinceArm,       \* history: ticks since the arming click while no click followed it, else -1
  failedNoClick,  \* history: a delete failed and the control was not clicked since
  \* ---- Start/Stop button (one row; both pages) and create bar (main page)
  actionKind,     \* the button's onclick is doAction('stop',..) or doAction('start',..)
  actionBtn,      \* [text, disabled]
  actionCalls,    \* doAction calls awaiting /api/start or /api/stop: [o], o the label saved
  createBtn,      \* #create-btn: [text, disabled]
  createForm,     \* the values of #repo and #ws-name: [repo, name]
  createReqs,     \* createWorkspace calls awaiting the answer of /api/create
  \* ---- bulk selection (main page)
  checked,        \* the rows whose .ws-check is checked
  selectAll,      \* #select-all is checked
  barVisible,     \* #bulk-bar has the class 'visible'
  bulkCount,      \* the number n in the text 'n selected' of #bulk-count
  barDisabled,    \* the buttons of #bulk-bar are disabled
  bulkReqs,       \* bulkAction calls awaiting /api/bulk/...: [action, kind, rows]
  \* ---- creation-log poll (detail page of a workspace that is being created)
  wsCreating,     \* detail["creating"] when the page was rendered
  creationPoll,   \* `creationPoll`: the handle of the poll interval, 0 for null
  pollLeft,       \* ticks until the poll interval is due, -1 when no interval is live
  pollReqs,       \* the poll requests in flight, by their order of issue (1, 2, ...)
  issued,         \* poll requests issued by this document
  viewer,         \* #log-content shows the buffer answered to request n (0: empty)
  pollDone,       \* history: an answer with creating:false was handled by this document
  \* ---- settings and templates (main page), schedule row (detail page)
  providerReqs,   \* saveProvider calls awaiting the answer of /api/settings/provider
  presetForm,     \* the values of #sp-name and #sp-repo: [name, repo]
  presetReqs,     \* savePreset calls awaiting the answer of /api/presets
  schedForm,      \* one schedule row: [time, days], the value of its time input and its checked days
  schedReqs,      \* saveSchedule calls of that row awaiting the answer of /api/schedule/set
  schedLoad,      \* the loadSchedules() call of the page load awaits the answer of /api/schedules
  removeReqs,     \* calls of removeSchedule that await the answer of /api/schedule/remove
  \* ---- usage history (detail page)
  usageLoad,      \* the loadUsageHistory() call of the page load awaits /api/usage-history
  usageData,      \* the samples answered, oldest first: [cpu, mem]
  sparkCpu,       \* the polyline of #sparkline-cpu: its points [x, y], in tenths of a unit
  sparkMem,       \* the polyline of #sparkline-mem
  sparkCpuLbl,    \* the texts of #sparkline-cpu-val, -min and -max
  sparkMemLbl     \* the texts of #sparkline-mem-val, -min and -max

refreshVars == <<timers, rt, detailRefresh>>
termVars == <<termWs, termObj, sockets, connectBtn, disconnectBtn, termStatus, lastTermCall>>
logVars == <<evtSource, streams, logBtn, logStatus>>
liveVars == <<refreshVars, termVars, logVars>>
noteVars == <<toast, toastTimers, reloadTimers>>
delVars == <<deleteBtn, disarmTimers, deleteReqs, sinceArm, failedNoClick>>
\* the parts of the page that the timed specifications exercise
actVars == <<actionKind, actionBtn, actionCalls, createBtn, createForm, createReqs>>
bulkVars == <<checked, selectAll, barVisible, bulkCount, barDisabled, bulkReqs>>
pollVars == <<wsCreating, creationPoll, pollLeft, pollReqs, issued, viewer, pollDone>>
saveVars == <<providerReqs, presetForm, presetReqs, schedForm, schedReqs, schedLoad, removeReqs>>
usageVars == <<usageLoad, usageData, sparkCpu, sparkMem, sparkCpuLbl, sparkMemLbl>>
ctlVars == <<noteVars, delVars, actVars, bulkVars, pollVars, saveVars, usageVars>>
vars == <<page, pointerDown, ev, liveVars, ctlVars>>

(***************************************************************************)
(* Bounds of the model.                                                    *)
(***************************************************************************)
\* setInterval timers alive at once on one page (leaked ones included)
MaxTimers == 3
\* WebSocket objects not yet garbage at once
MaxSockets == 2
\* EventSource objects open at once
MaxStreams == 2
\* disarm timeouts of one delete control pending at once
MaxDisarm == 3
\* hide timeouts of the toast pending at once
MaxToasts == 2
\* reload timeouts pending at once
MaxReloads == 2
\* createWorkspace calls in flight at once
MaxCreates == 2
\* rows of the workspace table that carry a checkbox
NumRows == 2
\* poll requests one document issues
MaxPolls == 3
\* calls of one save control in flight at once
MaxSaves == 2
\* samples in a usage history
MaxSamples == 3
\* the largest value of a sample
MaxSample == 2
\* the largest distance of a byte count from the nearest point of BytePoints
MaxOffset == 5

TimerIds == 1..MaxTimers
SocketIds == 1..MaxSockets
StreamIds == 1..MaxStreams

Min(S) == CHOOSE x \in S : \A y \in S : x <= y

\* a duration in ticks of 1000 ms
Ticks(ms) == ms \div 1000

\* a sequence without its i-th element
Remove(seq, i) == SubSeq(seq, 1, i - 1) \o SubSeq(seq, i + 1, Len(seq))

(***************************************************************************)
(* Auto-refresh: scripts.py 151-153 (main page) and 388-390 (detail page). *)
(***************************************************************************)

\* The value of the handle variable of the page that is loaded.
Handle == IF page = "main" THEN rt ELSE detailRefresh

\* The ids setInterval may return: an id never returned before.  An id that is
\* neither alive nor held by the handle variable is indistinguishable from a
\* new one, so the smallest such id stands for it.
FreeTimers == TimerIds \ (timers \cup {Handle})

\* setInterval(()=>location.reload(), ...): the id it returns.
SetInterval == Min(FreeTimers)

\* clearInterval(h): the live timers afterwards.
ClearInterval(h) == timers \ {h}

\* The state right after the scripts of page p ran at load:
\* `let rt=setInterval(...)` / `let detailRefresh=setInterval(...)`,
\* `let termWs=null,termObj=null`, `let evtSource=null`, and the markup of
\* workspace_detail.py for a running workspace.
LoadRefresh(p) ==
  /\ timers' = {1}
  /\ rt' = IF p = "main" THEN 1 ELSE 0
  /\ detailRefresh' = IF p = "detail" THEN 1 ELSE 0

LoadTerminal ==
  /\ termWs' = 0
  /\ termObj' = FALSE
  /\ sockets' = [s \in SocketIds |-> "none"]
  /\ connectBtn' = ""
  /\ disconnectBtn' = "none"
  /\ termStatus' = "Ready"
  /\ lastTermCall' = "none"

\* The logs card, workspace_detail.py 267-287.  For a workspace that is being
\* created the page ends with startCreationLogPoll(name), scripts.py 311-315:
\* the status reads 'Polling...' and the poll interval is set.
LoadLog(creating) ==
  /\ evtSource' = 0
  /\ streams' = {}
  /\ logBtn' = "Start streaming"
  /\ logStatus' = IF creating THEN "Polling..." ELSE "Ready"

\* the creation poll asks every 2000 ms: scripts.py 323
PollMs == 2000
\* the creation poll reloads 3000 ms after creating:false: scripts.py 321
PollReloadMs == 3000

\* the id setInterval returns for the poll: the second interval of the page
PollHandle == 2

LoadPoll(p, creating) ==
  /\ wsCreating' = creating
  /\ creationPoll' = IF creating /\ p = "detail" THEN PollHandle ELSE 0
  /\ pollLeft' = IF creating /\ p = "detail" THEN Ticks(PollMs) ELSE -1
  /\ pollReqs' = {}
  /\ issued' = 0
  /\ viewer' = 0
  /\ pollDone' = FALSE

\* wrap_page, base.py 45: <div class="toast" id="toast">; no timeout is pending.
LoadNotes ==
  /\ toast' = [display |-> "none", text |-> "", cls |-> "toast"]
  /\ toastTimers' = <<>>
  /\ reloadTimers' = <<>>

\* The Delete button as rendered: main_page.py 151, workspace_detail.py 55-56.
DeleteButton == [armed |-> FALSE, text |-> "Delete", cls |-> "btn btn-outline-red", disabled |-> FALSE]

LoadDelete ==
  /\ deleteBtn' = DeleteButton
  /\ disarmTimers' = <<>>
  /\ deleteReqs' = 0
  /\ sinceArm' = -1
  /\ failedNoClick' = FALSE

\* The Start/Stop button of a row: main_page.py 149 and 184,
\* workspace_detail.py 48 and 59.
ActionButton(kind) == [text |-> IF kind = "stop" THEN "Stop" ELSE "Start", disabled |-> FALSE]

\* The create bar, main_page.py 307-311.
CreateButton == [text |-> "Create Workspace", disabled |-> FALSE]

\* The page shows the workspace in the lifecycle state it showed before, or in
\* the other one when a start or stop went through.
LoadAction(kind) ==
  /\ actionKind' = kind
  /\ actionBtn' = ActionButton(kind)
  /\ actionCalls' = <<>>
  /\ createBtn' = CreateButton
  /\ createForm' = [repo |-> "", name |-> ""]
  /\ createReqs' = 0

\* Checkboxes unchecked, main_page.py 137-139, 177-179 and 334; the bar hidden
\* with '0 selected', main_page.py 341-346.
LoadBulk ==
  /\ checked' = {}
  /\ selectAll' = FALSE
  /\ barVisible' = FALSE
  /\ bulkCount' = 0
  /\ barDisabled' = FALSE
  /\ bulkReqs' = <<>>

\* The settings card, the template form (main_page.py 258, 319-327) and the
\* schedule row (workspace_detail.py 313-325) as rendered: the inputs this
\* model follows are empty and no day is checked.  The detail page ends with
\* loadSchedules(), scripts.py 391, which awaits /api/schedules.
LoadSave(p) ==
  /\ providerReqs' = 0
  /\ presetForm' = [name |-> "", repo |-> ""]
  /\ presetReqs' = 0
  /\ schedForm' = [time |-> "", days |-> {}]
  /\ removeReqs' = 0
  /\ schedReqs' = 0
  /\ schedLoad' = (p = "detail")

\* The value, min and max texts of a sparkline as rendered,
\* workspace_detail.py 162-165.
NoLabels == [val |-> "--", min |-> "", max |-> ""]

\* The sparkline card as rendered, workspace_detail.py 152-176: two empty
\* <svg>.  The detail page ends with loadUsageHistory(POD_NAME), scripts.py 392.
LoadUsage(p) ==
  /\ usageLoad' = (p = "detail")
  /\ usageData' = <<>>
  /\ sparkCpu' = <<>>
  /\ sparkMem' = <<>>
  /\ sparkCpuLbl' = NoLabels
  /\ sparkMemLbl' = NoLabels

\* Page p loads, showing the workspace with Start or Stop (kind); creating
\* holds when p is the detail page of a workspace that is being created.
PageLoadAs(p, kind, creating) ==
  /\ page' = p
  /\ LoadRefresh(p)
  /\ LoadTerminal
  /\ LoadLog(creating)
  /\ LoadNotes
  /\ LoadDelete
  /\ LoadAction(kind)
  /\ LoadBulk
  /\ LoadPoll(p, creating)
  /\ LoadSave(p)
  /\ LoadUsage(p)

\* location.reload() by the refresh timer: the page shows what it showed.
PageLoad(p) == PageLoadAs(p, actionKind, wsCreating)

\* detail["running"] of the workspace the page shows: a running workspace has
\* the Stop button, a stopped one the Start button (workspace_detail.py 44-61;
\* while it is being created the page shows neither).
Running == actionKind = "stop"

\* The action buttons of the workspace, main_page.py 127-185 and
\* workspace_detail.py 42-61: `if creating` none ('please wait'); `elif
\* running` Stop, Duplicate and Delete; else Start and Delete.
HasStop == ~wsCreating /\ Running
HasStart == ~wsCreating /\ ~Running
HasDelete == ~wsCreating
HasDuplicate == ~wsCreating /\ Running

\* The bulk-selection checkbox of the workspace's row, main_page.py 127-128,
\* 137-139 and 177-179: an empty cell while the workspace is being created.
HasCheckbox == page = "main" /\ ~wsCreating

\* The logs card without its first branch: the stream button rendered for
\* every running workspace.
HasStreamButtonIfRunning == page = "detail" /\ Running

\* The logs card, workspace_detail.py 267-287: `if creating` the card has no
\* button and the page starts the creation poll; `elif running` it has
\* #log-stream-btn; else it has neither.
HasStreamButton == page = "detail" /\ ~wsCreating /\ Running

\* The terminal card, workspace_detail.py 297-310: `if running and pod`.
HasTerminalCard == page = "detail" /\ Running

\* document 'mousedown' listener: clearInterval(rt) / clearInterval(detailRefresh)
MouseDown ==
  /\ pointerDown' = TRUE
  /\ timers' = ClearInterval(Handle)
  /\ ev' = "mousedown"
  /\ UNCHANGED <<page, rt, detailRefresh, termVars, logVars, ctlVars>>

\* document 'mouseup' listener: rt=setInterval(...) / detailRefresh=setInterval(...).
\* The listeners see every mousedown and mouseup of the document, in any order:
\* each mouse button fires its own pair, and a button pressed outside the
\* document or before it loaded is released without a mousedown of its own.
MouseUp ==
  /\ FreeTimers # {}
  /\ pointerDown' = FALSE
  /\ timers' = timers \cup {SetInterval}
  /\ rt' = IF page = "main" THEN SetInterval ELSE rt
  /\ detailRefresh' = IF page = "detail" THEN SetInterval ELSE detailRefresh
  /\ ev' = "mouseup"
  /\ UNCHANGED <<page, termVars, logVars, ctlVars>>

\* A live interval timer expires: location.reload().  The document is replaced:
\* its timers, sockets and event sources are gone and the scripts run again.
RefreshFire ==
  /\ \E t \in timers : TRUE
  /\ PageLoad(page)
  /\ ev' = "reload"
  /\ UNCHANGED pointerDown

(***************************************************************************)
(* Terminal: scripts.py 195-238.                                           *)
(***************************************************************************)

\* WebSocket.close(): an open socket starts the closing handshake ("closing");
\* a socket that is still connecting has its connection failed ("aborting": the
\* browser will fire error and close); on a socket that is closing or closed
\* the call does nothing.
WsClose(sk, s) ==
  IF s = 0 THEN sk
  ELSE IF sk[s] = "open" THEN [sk EXCEPT ![s] = "closing"]
  ELSE IF sk[s] = "connecting" THEN [sk EXCEPT ![s] = "aborting"]
  ELSE sk

\* A socket object nobody refers to any more and that fires no more events.
Collect(sk, ref) == [s \in SocketIds |-> IF sk[s] = "closed" /\ s # ref THEN "none" ELSE sk[s]]

\* disconnectTerminal(), scripts.py 229-238, on the socket table sk.
disconnectTerminal(sk) ==
  /\ sockets' = Collect(WsClose(sk, termWs), 0)
  /\ termWs' = 0
  /\ termObj' = FALSE
  /\ connectBtn' = ""
  /\ disconnectBtn' = "none"
  /\ termStatus' = "Disconnected"
  /\ lastTermCall' = "disconnect"

\* connectTerminal without its toggle guard (line 197): every call opens a socket.
connectTerminalNoToggle ==
  /\ \E s \in SocketIds : sockets[s] = "none"
  /\ LET s == Min({x \in SocketIds : sockets[x] = "none"}) IN
       /\ sockets' = [sockets EXCEPT ![s] = "connecting"]
       /\ termWs' = s
  /\ termObj' = TRUE
  /\ termStatus' = "Connecting..."
  /\ lastTermCall' = "connect"
  /\ UNCHANGED <<connectBtn, disconnectBtn, refreshVars>>

\* connectTerminal(podName), scripts.py 196-228.
connectTerminal ==
  IF termWs # 0
  THEN disconnectTerminal(sockets) /\ UNCHANGED <<refreshVars>>
  ELSE /\ \E s \in SocketIds : sockets[s] = "none"
       /\ LET s == Min({x \in SocketIds : sockets[x] = "none"}) IN
            /\ sockets' = [sockets EXCEPT ![s] = "connecting"]
            /\ termWs' = s
       /\ termObj' = TRUE
       /\ termStatus' = "Connecting..."
       /\ lastTermCall' = "connect"
       /\ UNCHANGED <<connectBtn, disconnectBtn, refreshVars>>

\* onclick of #term-connect-btn, which the page of a running workspace carries
\* (workspace_detail.py 297-310).  The call is also taken while the button is
\* hidden: termWs is then not null, and the call does what the visible
\* Disconnect button does.
ConnectClick ==
  /\ HasTerminalCard
  /\ connectTerminal
  /\ ev' = "connectTerminal"
  /\ UNCHANGED <<page, pointerDown, logVars, ctlVars>>

\* onclick of #term-disconnect-btn.
DisconnectClick ==
  /\ HasTerminalCard
  /\ disconnectBtn = ""
  /\ disconnectTerminal(sockets)
  /\ ev' = "disconnectTerminal"
  /\ UNCHANGED <<page, pointerDown, refreshVars, logVars, ctlVars>>

\* termWs.onopen, scripts.py 215-218, of socket s.
SocketOpen(s) ==
  /\ sockets[s] = "connecting"
  /\ sockets' = [sockets EXCEPT ![s] = "open"]
  /\ termStatus' = "Connected"
  /\ connectBtn' = "none"
  /\ disconnectBtn' = ""
  /\ timers' = ClearInterval(detailRefresh)
  /\ ev' = "onopen"
  /\ UNCHANGED <<page, pointerDown, rt, detailRefresh, termWs, termObj, lastTermCall, logVars, ctlVars>>

\* termWs.onclose without its setInterval (line 224): the refresh timer is
\* not armed again.
oncloseNoResume(sk, s, ref) ==
  /\ FreeTimers # {}
  /\ sockets' = Collect([sk EXCEPT ![s] = "closed"], ref)
  /\ connectBtn' = ""
  /\ disconnectBtn' = "none"
  /\ termStatus' = "Disconnected"
  /\ UNCHANGED <<rt, detailRefresh, timers>>

\* termWs.onclose, scripts.py 223-225, of socket s on the socket table sk.
onclose(sk, s, ref) ==
  /\ FreeTimers # {}
  /\ sockets' = Collect([sk EXCEPT ![s] = "closed"], ref)
  /\ connectBtn' = ""
  /\ disconnectBtn' = "none"
  /\ termStatus' = "Disconnected"
  /\ detailRefresh' = SetInterval
  /\ timers' = timers \cup {SetInterval}
  /\ UNCHANGED rt

\* The close event of socket s without an error: the remote end closed an open
\* socket, or a close() of the page completed.
SocketClose(s) ==
  /\ sockets[s] \in {"open", "closing"}
  /\ onclose(sockets, s, termWs)
  /\ ev' = "onclose"
  /\ UNCHANGED <<page, pointerDown, termWs, termObj, lastTermCall, logVars, ctlVars>>

\* The connection of socket s fails (it could not be established, the transport
\* broke, or close() was called before it was established): the browser fires
\* error and then close in one task.  termWs.onerror, scripts.py 226, sets the
\* status and calls disconnectTerminal(); then onclose runs.
SocketError(s) ==
  /\ sockets[s] \in {"connecting", "open", "closing", "aborting"}
  /\ termWs' = 0
  /\ termObj' = FALSE
  /\ lastTermCall' = "disconnect"
  /\ onclose(WsClose(sockets, termWs), s, 0)
  /\ ev' = "onerror"
  /\ UNCHANGED <<page, pointerDown, logVars, ctlVars>>

(***************************************************************************)
(* Tailing log stream: scripts.py 285-307.                                 *)
(***************************************************************************)

\* stopLogStream without the reset of #log-stream-btn (line 306).
stopLogStreamKeepLabel ==
  /\ streams' = streams \ {evtSource}
  /\ evtSource' = 0
  /\ UNCHANGED logBtn

\* stopLogStream(), scripts.py 303-307.
stopLogStream ==
  /\ streams' = streams \ {evtSource}
  /\ evtSource' = 0
  /\ logBtn' = "Start streaming"

\* startLogStream(podName), scripts.py 286-302: onclick of #log-stream-btn.
StartLogStream ==
  /\ HasStreamButton
  /\ IF evtSource # 0
     THEN stopLogStream /\ UNCHANGED logStatus
     ELSE /\ StreamIds \ streams # {}
          /\ evtSource' = Min(StreamIds \ streams)
          /\ streams' = streams \cup {Min(StreamIds \ streams)}
          /\ logBtn' = "Stop streaming"
          /\ logStatus' = "Connected"
  /\ ev' = "startLogStream"
  /\ UNCHANGED <<page, pointerDown, refreshVars, termVars, ctlVars>>

\* evtSource.onerror, scripts.py 298-301, of the open event source es.
StreamError(es) ==
  /\ es \in streams
  /\ logStatus' = "Disconnected"
  /\ stopLogStream
  /\ ev' = "streamError"
  /\ UNCHANGED <<page, pointerDown, refreshVars, termVars, ctlVars>>

(***************************************************************************)
(* Timeouts, the toast and the reloads the actions schedule.               *)
(***************************************************************************)

\* showToast hides the toast after 4000 ms: scripts.py 4 and 159
ToastMs == 4000
\* confirmDelete disarms the control after 3000 ms: scripts.py 15 and 166
DisarmMs == 3000
\* doDelete reloads (or leaves for the list) 2000 ms after ok:true: scripts.py 19 and 170
DeleteReloadMs == 2000

\* showToast(m, ok), scripts.py 4 and 159.
showToast(m, ok) ==
  /\ Len(toastTimers) < MaxToasts
  /\ toast' = [display |-> "block", text |-> m, cls |-> IF ok THEN "toast ok" ELSE "toast err"]
  /\ toastTimers' = Append(toastTimers, Ticks(ToastMs))

\* The timeout callback of showToast: t.style.display='none'.
ToastHide ==
  /\ \E i \in DOMAIN toastTimers :
       /\ toastTimers[i] = 0
       /\ toastTimers' = Remove(toastTimers, i)
  /\ toast' = [toast EXCEPT !.display = "none"]
  /\ ev' = "toastHide"
  /\ UNCHANGED <<page, pointerDown, usageVars, saveVars, liveVars, pollVars, reloadTimers, delVars, actVars, bulkVars>>

\* setTimeout(()=>location.reload(), ms), or setTimeout(()=>window.location='/', ms)
\* when target is "/", set by action `by`.
ScheduleReload(by, ms, target) ==
  /\ Len(reloadTimers) < MaxReloads
  /\ reloadTimers' = Append(reloadTimers, [by |-> by, delay |-> ms, left |-> Ticks(ms), target |-> target])

\* The callback of a reload timeout: the document is replaced.  After a start
\* or stop went through the workspace may show in either lifecycle state; the
\* creation poll reloads once the workspace is reported as no longer creating.
ReloadFire ==
  /\ \E i \in DOMAIN reloadTimers :
       /\ reloadTimers[i].left = 0
       /\ \E kind \in (IF reloadTimers[i].by = "doAction" THEN {"start", "stop"} ELSE {actionKind}) :
            PageLoadAs(IF reloadTimers[i].target = "/" THEN "main" ELSE page, kind,
                       wsCreating /\ reloadTimers[i].by # "creationPoll")
  /\ ev' = "actionReload"
  /\ UNCHANGED pointerDown

\* One tick passes; no timeout is due.
Tick ==
  /\ \A i \in DOMAIN toastTimers : toastTimers[i] > 0
  /\ \A i \in DOMAIN reloadTimers : reloadTimers[i].left > 0
  /\ \A i \in DOMAIN disarmTimers : disarmTimers[i] > 0
  /\ pollLeft # 0
  /\ pollLeft' = IF pollLeft > 0 THEN pollLeft - 1 ELSE pollLeft
  /\ toastTimers' = [i \in DOMAIN toastTimers |-> toastTimers[i] - 1]
  /\ reloadTimers' = [i \in DOMAIN reloadTimers |-> [reloadTimers[i] EXCEPT !.left = @ - 1]]
  /\ disarmTimers' = [i \in DOMAIN disarmTimers |-> disarmTimers[i] - 1]
  /\ sinceArm' = IF sinceArm \in 0..Ticks(DisarmMs) THEN sinceArm + 1 ELSE sinceArm
  /\ ev' = "tick"
  /\ UNCHANGED <<page, pointerDown, usageVars, saveVars, liveVars, toast, deleteBtn, deleteReqs, failedNoClick, actVars, bulkVars,
                 wsCreating, creationPoll, pollReqs, issued, viewer, pollDone>>

(***************************************************************************)
(* Delete control: scripts.py 12-20 (main page) and 163-171 (detail page). *)
(***************************************************************************)

\* The failure branch of doDelete without `delete btn.dataset.armed`.
DeleteFailedKeepArmed(b) ==
  [b EXCEPT !.disabled = FALSE, !.text = "Delete", !.cls = "btn btn-outline-red"]

\* The control after a failed delete: the else branch and the catch block of
\* doDelete, scripts.py 19.
DeleteFailed(b) ==
  [b EXCEPT !.disabled = FALSE, !.text = "Delete", !.cls = "btn btn-outline-red", !.armed = FALSE]

\* onclick of the Delete button: confirmDelete(btn,...), scripts.py 12-16, and
\* the start of doDelete, scripts.py 17-19, up to its await.  A disabled
\* button receives no click.
ConfirmDeleteClick ==
  /\ HasDelete
  /\ ~deleteBtn.disabled
  /\ IF deleteBtn.armed
     THEN /\ deleteBtn' = [deleteBtn EXCEPT !.disabled = TRUE, !.text = "Deleting..."]
          /\ deleteReqs' = deleteReqs + 1
          /\ sinceArm' = -1
          /\ UNCHANGED disarmTimers
     ELSE /\ Len(disarmTimers) < MaxDisarm
          /\ deleteBtn' = [deleteBtn EXCEPT !.armed = TRUE, !.text = "Confirm?", !.cls = "btn btn-confirm"]
          /\ disarmTimers' = Append(disarmTimers, Ticks(DisarmMs))
          /\ sinceArm' = 0
          /\ UNCHANGED deleteReqs
  /\ failedNoClick' = FALSE
  /\ ev' = "confirmDelete"
  /\ UNCHANGED <<page, pointerDown, usageVars, saveVars, liveVars, pollVars, noteVars, actVars, bulkVars>>

\* The timeout callback of confirmDelete, scripts.py 15.
DisarmFire ==
  /\ \E i \in DOMAIN disarmTimers :
       /\ disarmTimers[i] = 0
       /\ disarmTimers' = Remove(disarmTimers, i)
  /\ deleteBtn' = IF deleteBtn.armed
                  THEN [deleteBtn EXCEPT !.armed = FALSE, !.text = "Delete", !.cls = "btn btn-outline-red"]
                  ELSE deleteBtn
  /\ ev' = "disarm"
  /\ UNCHANGED <<page, pointerDown, usageVars, saveVars, liveVars, pollVars, noteVars, deleteReqs, sinceArm, failedNoClick, actVars, bulkVars>>

\* doDelete after its await, scripts.py 19: the answer of /api/delete is
\* ok:true ("ok"), ok:false ("notok"), or the fetch or its parsing threw ("error").
DeleteSettle(outcome) ==
  /\ deleteReqs > 0
  /\ deleteReqs' = deleteReqs - 1
  /\ CASE outcome = "ok" ->
            /\ showToast("d.message", TRUE)
            /\ ScheduleReload("doDelete", DeleteReloadMs, IF page = "detail" THEN "/" ELSE "reload")
            /\ UNCHANGED <<deleteBtn, failedNoClick>>
       [] outcome = "notok" ->
            /\ showToast("d.message", FALSE)
            /\ deleteBtn' = DeleteFailed(deleteBtn)
            /\ failedNoClick' = TRUE
            /\ UNCHANGED reloadTimers
       [] outcome = "error" ->
            /\ showToast("Failed", FALSE)
            /\ deleteBtn' = DeleteFailed(deleteBtn)
            /\ failedNoClick' = TRUE
            /\ UNCHANGED reloadTimers
  /\ ev' = "doDelete." \o outcome
  /\ UNCHANGED <<page, pointerDown, usageVars, saveVars, liveVars, pollVars, disarmTimers, sinceArm, actVars, bulkVars>>

Outcomes == {"ok", "notok", "error"}

(***************************************************************************)
(* Start/Stop button: doAction, scripts.py 6 (main page) and 161 (detail   *)
(* page).  Create bar: createWorkspace, scripts.py 10 and 149.             *)
(***************************************************************************)

\* doAction reloads 2000 ms after ok:true: scripts.py 6 and 161
ActionReloadMs == 2000
\* createWorkspace reloads 2000 ms after ok:true: scripts.py 10
CreateReloadMs == 2000

\* The button after a failed doAction: b.disabled=false;b.textContent=o.
ActionFailed(b, o) == [b EXCEPT !.disabled = FALSE, !.text = o]

\* onclick of the Start/Stop button: doAction(a,p) up to its await.
DoActionClick ==
  /\ HasStop \/ HasStart
  /\ ~actionBtn.disabled
  /\ actionCalls' = Append(actionCalls, [o |-> actionBtn.text])
  /\ actionBtn' = [text |-> IF actionKind = "stop" THEN "Stopping..." ELSE "Starting...",
                   disabled |-> TRUE]
  /\ ev' = "doAction"
  /\ UNCHANGED <<page, pointerDown, usageVars, saveVars, liveVars, pollVars, noteVars, delVars, bulkVars,
                 actionKind, createBtn, createForm, createReqs>>

\* doAction after its await.
DoActionSettle(outcome) ==
  /\ actionCalls # <<>>
  /\ actionCalls' = Tail(actionCalls)
  /\ CASE outcome = "ok" ->
            /\ showToast("d.message", TRUE)
            /\ ScheduleReload("doAction", ActionReloadMs, "reload")
            /\ UNCHANGED actionBtn
       [] outcome = "notok" ->
            /\ showToast("d.message", FALSE)
            /\ actionBtn' = ActionFailed(actionBtn, Head(actionCalls).o)
            /\ UNCHANGED reloadTimers
       [] outcome = "error" ->
            /\ showToast("Failed", FALSE)
            /\ actionBtn' = ActionFailed(actionBtn, Head(actionCalls).o)
            /\ UNCHANGED reloadTimers
  /\ ev' = "doAction." \o outcome
  /\ UNCHANGED <<page, pointerDown, usageVars, saveVars, liveVars, pollVars, delVars, bulkVars,
                 actionKind, createBtn, createForm, createReqs>>

\* String.prototype.trim on the values the model types into the inputs.
Trim(v) == IF v = " " THEN "" ELSE v

RepoValues == {"", " ", "r"}
NameValues == {"", "n"}

\* The user edits #repo or #ws-name.
EditForm ==
  /\ page = "main"
  /\ \E r \in RepoValues, n \in NameValues :
       /\ [repo |-> r, name |-> n] # createForm
       /\ createForm' = [repo |-> r, name |-> n]
  /\ ev' = "input"
  /\ UNCHANGED <<page, pointerDown, usageVars, saveVars, liveVars, pollVars, noteVars, delVars, bulkVars,
                 actionKind, actionBtn, actionCalls, createBtn, createReqs>>

\* createWorkspace without the .trim() of the repository value.
createWorkspaceNoTrim ==
  IF createForm.repo = ""
  THEN /\ showToast("Enter a repository URL", FALSE)
       /\ UNCHANGED <<createBtn, createReqs>>
  ELSE /\ createReqs < MaxCreates
       /\ createBtn' = [text |-> "Creating...", disabled |-> TRUE]
       /\ createReqs' = createReqs + 1
       /\ UNCHANGED <<toast, toastTimers>>

\* createWorkspace() up to its await, scripts.py 10.
createWorkspace ==
  IF Trim(createForm.repo) = ""
  THEN /\ showToast("Enter a repository URL", FALSE)
       /\ UNCHANGED <<createBtn, createReqs>>
  ELSE /\ createReqs < MaxCreates
       /\ createBtn' = [text |-> "Creating...", disabled |-> TRUE]
       /\ createReqs' = createReqs + 1
       /\ UNCHANGED <<toast, toastTimers>>

\* onclick of #create-btn (a disabled button receives no click), or Enter in
\* #repo (scripts.py 149), which the state of the button does not prevent.
CreateCall(byEnter) ==
  /\ page = "main"
  /\ byEnter \/ ~createBtn.disabled
  /\ createWorkspace
  /\ ev' = "createWorkspace"
  /\ UNCHANGED <<page, pointerDown, usageVars, saveVars, liveVars, pollVars, reloadTimers, delVars, bulkVars,
                 actionKind, actionBtn, actionCalls, createForm>>

\* createWorkspace after its await.
CreateSettle(outcome) ==
  /\ createReqs > 0
  /\ createReqs' = createReqs - 1
  /\ createBtn' = [text |-> "Create Workspace", disabled |-> FALSE]
  /\ CASE outcome = "ok" ->
            /\ showToast("d.message", TRUE)
            /\ createForm' = [repo |-> "", name |-> ""]
            /\ ScheduleReload("createWorkspace", CreateReloadMs, "reload")
       [] outcome = "notok" ->
            /\ showToast("d.message", FALSE)
            /\ UNCHANGED <<createForm, reloadTimers>>
       [] outcome = "error" ->
            /\ showToast("Failed", FALSE)
            /\ UNCHANGED <<createForm, reloadTimers>>
  /\ ev' = "createWorkspace." \o outcome
  /\ UNCHANGED <<page, pointerDown, usageVars, saveVars, liveVars, pollVars, delVars, bulkVars,
                 actionKind, actionBtn, actionCalls>>

(***************************************************************************)
(* Bulk selection: scripts.py 113-133.                                     *)
(***************************************************************************)

\* bulkAction reloads 2000 ms after an answer: scripts.py 131
BulkReloadMs == 2000

Rows == 1..NumRows

\* updateBulkBar without the assignment to cnt.textContent.
updateBulkBarNoCount(c) ==
  /\ barVisible' = (Cardinality(c) > 0)
  /\ UNCHANGED bulkCount

\* updateBulkBar(), scripts.py 114, with the rows c checked.
updateBulkBar(c) ==
  IF Cardinality(c) > 0
  THEN barVisible' = TRUE /\ bulkCount' = Cardinality(c)
  ELSE barVisible' = FALSE /\ UNCHANGED bulkCount

\* The user changes the checkbox of row r: onchange="updateBulkBar()".
ToggleRow(r) ==
  /\ page = "main"
  /\ checked' = IF r \in checked THEN checked \ {r} ELSE checked \cup {r}
  /\ updateBulkBar(checked')
  /\ ev' = "check"
  /\ UNCHANGED <<page, pointerDown, usageVars, saveVars, liveVars, pollVars, noteVars, delVars, actVars,
                 selectAll, barDisabled, bulkReqs>>

\* The user changes #select-all: toggleSelectAll(el), scripts.py 113.
ToggleSelectAll ==
  /\ page = "main"
  /\ selectAll' = ~selectAll
  /\ checked' = IF selectAll' THEN Rows ELSE {}
  /\ updateBulkBar(checked')
  /\ ev' = "toggleSelectAll"
  /\ UNCHANGED <<page, pointerDown, usageVars, saveVars, liveVars, pollVars, noteVars, delVars, actVars,
                 barDisabled, bulkReqs>>

BulkActions == {"start", "stop", "delete"}

\* The name under which a bulkAction call is recorded in ev: the action and,
\* for delete, the user's answer to confirm().
BulkCallName(action, confirmed) ==
  "bulkAction:" \o action \o (IF action # "delete" THEN "" ELSE IF confirmed THEN ":yes" ELSE ":no")

\* bulkAction without its confirm() (line 118): a declined delete is sent.
BulkClickNoConfirm(action, confirmed) ==
  /\ page = "main"
  /\ barVisible
  /\ ~barDisabled
  /\ IF Cardinality(checked) = 0
     THEN UNCHANGED <<barDisabled, bulkReqs>>
     ELSE /\ barDisabled' = TRUE
          /\ bulkReqs' = Append(bulkReqs,
               [action |-> action,
                kind |-> IF action = "delete" THEN "workspaces" ELSE "pods",
                rows |-> checked])
  /\ ev' = BulkCallName(action, confirmed)
  /\ UNCHANGED <<page, pointerDown, usageVars, saveVars, liveVars, pollVars, noteVars, delVars, actVars,
                 checked, selectAll, barVisible, bulkCount>>

\* onclick of a button of the bar: bulkAction(action) up to its await,
\* scripts.py 115-128.  The buttons can be clicked while the bar is shown and
\* they are enabled; confirmed is the user's answer to confirm().
BulkClick(action, confirmed) ==
  /\ page = "main"
  /\ barVisible
  /\ ~barDisabled
  /\ IF Cardinality(checked) = 0 \/ (action = "delete" /\ ~confirmed)
     THEN UNCHANGED <<barDisabled, bulkReqs>>
     ELSE /\ barDisabled' = TRUE
          /\ bulkReqs' = Append(bulkReqs,
               [action |-> action,
                kind |-> IF action = "delete" THEN "workspaces" ELSE "pods",
                rows |-> checked])
  /\ ev' = BulkCallName(action, confirmed)
  /\ UNCHANGED <<page, pointerDown, usageVars, saveVars, liveVars, pollVars, noteVars, delVars, actVars,
                 checked, selectAll, barVisible, bulkCount>>

\* bulkAction after its await, scripts.py 124-132.
BulkSettle(outcome) ==
  /\ bulkReqs # <<>>
  /\ bulkReqs' = Tail(bulkReqs)
  /\ CASE outcome = "ok" ->
            /\ showToast("d.message", TRUE)
            /\ ScheduleReload("bulkAction", BulkReloadMs, "reload")
       [] outcome = "notok" ->
            /\ showToast("d.message", FALSE)
            /\ ScheduleReload("bulkAction", BulkReloadMs, "reload")
       [] outcome = "error" ->
            /\ showToast("Bulk action failed", FALSE)
            /\ UNCHANGED reloadTimers
  /\ ev' = "bulkAction." \o outcome
  /\ UNCHANGED <<page, pointerDown, usageVars, saveVars, liveVars, pollVars, delVars, actVars,
                 checked, selectAll, barVisible, bulkCount, barDisabled>>

(***************************************************************************)
(* Creation-log poll: scripts.py 310-324, started by the page of a         *)
(* workspace that is being created (workspace_detail.py 268-273, 370).     *)
(***************************************************************************)

\* The interval callback of startCreationLogPoll up to its await: it sends a
\* request to /api/logs/creation/<name>; the interval stays set.
PollTick ==
  /\ pollLeft = 0
  /\ issued < MaxPolls
  /\ issued' = issued + 1
  /\ pollReqs' = pollReqs \cup {issued + 1}
  /\ pollLeft' = Ticks(PollMs)
  /\ ev' = "pollTick"
  /\ UNCHANGED <<page, pointerDown, usageVars, saveVars, refreshVars, termVars, logVars, noteVars, delVars, actVars, bulkVars,
                 wsCreating, creationPoll, viewer, pollDone>>

\* The interval callback after its awaits, scripts.py 318-321, on the answer
\* {lines, status, creating} to request n, which may have taken any time.
PollSettle(n, creating) ==
  /\ n \in pollReqs
  /\ pollReqs' = pollReqs \ {n}
  /\ viewer' = n
  /\ IF creating
     THEN /\ logStatus' = "Status: creating"
          /\ UNCHANGED <<pollLeft, reloadTimers, pollDone>>
     ELSE /\ pollLeft' = -1
          /\ logStatus' = "Done"
          /\ ScheduleReload("creationPoll", PollReloadMs, "reload")
          /\ pollDone' = TRUE
  /\ ev' = "pollAnswer"
  /\ UNCHANGED <<page, pointerDown, usageVars, saveVars, refreshVars, termVars, evtSource, streams, logBtn,
                 toast, toastTimers, delVars, actVars, bulkVars,
                 wsCreating, creationPoll, issued>>

\* The catch block of the interval callback, scripts.py 322: the fetch of
\* request n or the parsing of its answer threw.
PollFail(n) ==
  /\ n \in pollReqs
  /\ pollReqs' = pollReqs \ {n}
  /\ logStatus' = "Poll error"
  /\ ev' = "pollError"
  /\ UNCHANGED <<page, pointerDown, usageVars, saveVars, refreshVars, termVars, evtSource, streams, logBtn,
                 noteVars, delVars, actVars, bulkVars,
                 wsCreating, creationPoll, pollLeft, issued, viewer, pollDone>>

(***************************************************************************)
(* Settings and templates of the main page: saveProvider, scripts.py 44-48,*)
(* and savePreset, scripts.py 103-112.  Schedule row of the detail page:   *)
(* loadSchedules, saveSchedule, scripts.py 240-267.                        *)
(***************************************************************************)

\* onclick of 'Save Defaults' (main_page.py 258): saveProvider() up to its
\* await.  The function touches no control.
SaveProviderClick ==
  /\ page = "main"
  /\ providerReqs < MaxSaves
  /\ providerReqs' = providerReqs + 1
  /\ ev' = "saveProvider"
  /\ UNCHANGED <<page, pointerDown, usageVars, liveVars, noteVars, delVars, actVars, bulkVars, pollVars,
                 presetForm, presetReqs, schedForm, schedReqs, schedLoad, removeReqs>>

\* saveProvider after its await: a toast, whatever the outcome.
SaveProviderSettle(outcome) ==
  /\ providerReqs > 0
  /\ providerReqs' = providerReqs - 1
  /\ IF outcome = "error" THEN showToast("Failed", FALSE) ELSE showToast("d.message", outcome = "ok")
  /\ ev' = "saveProvider." \o outcome
  /\ UNCHANGED <<page, pointerDown, usageVars, liveVars, reloadTimers, delVars, actVars, bulkVars, pollVars,
                 presetForm, presetReqs, schedForm, schedReqs, schedLoad, removeReqs>>

PresetNames == {"", " ", "p"}
PresetRepos == {"", "r"}

\* The user edits #sp-name or #sp-repo of the template form.
EditPreset ==
  /\ page = "main"
  /\ \E n \in PresetNames, r \in PresetRepos :
       /\ [name |-> n, repo |-> r] # presetForm
       /\ presetForm' = [name |-> n, repo |-> r]
  /\ ev' = "input"
  /\ UNCHANGED <<page, pointerDown, usageVars, liveVars, noteVars, delVars, actVars, bulkVars, pollVars,
                 providerReqs, presetReqs, schedForm, schedReqs, schedLoad, removeReqs>>

\* savePreset() up to its await, scripts.py 103-110.
savePreset ==
  IF Trim(presetForm.name) = "" \/ Trim(presetForm.repo) = ""
  THEN /\ showToast("Name and repo URL required", FALSE)
       /\ UNCHANGED presetReqs
  ELSE /\ presetReqs < MaxSaves
       /\ presetReqs' = presetReqs + 1
       /\ UNCHANGED <<toast, toastTimers>>

\* onclick of 'Save Template' (main_page.py 326), the form being open.
SavePresetClick ==
  /\ page = "main"
  /\ savePreset
  /\ ev' = "savePreset"
  /\ UNCHANGED <<page, pointerDown, usageVars, liveVars, reloadTimers, delVars, actVars, bulkVars, pollVars,
                 providerReqs, presetForm, schedForm, schedReqs, schedLoad, removeReqs>>

\* savePreset after its await, scripts.py 110-111: a toast; on ok:true the
\* form is hidden and the template list fetched again.  The inputs keep
\* their values.
SavePresetSettle(outcome) ==
  /\ presetReqs > 0
  /\ presetReqs' = presetReqs - 1
  /\ IF outcome = "error" THEN showToast("Failed", FALSE) ELSE showToast("d.message", outcome = "ok")
  /\ ev' = "savePreset." \o outcome
  /\ UNCHANGED <<page, pointerDown, usageVars, liveVars, reloadTimers, delVars, actVars, bulkVars, pollVars,
                 providerReqs, presetForm, schedForm, schedReqs, schedLoad, removeReqs>>

\* the days of a schedule row that the model follows (of Mon..Sun)
SchedDays == {"Mon", "Tue"}
\* the values of the row's time input: empty, or a time of day
SchedTimes == {"", "09:30"}

\* The schedule card is rendered for a workspace that is not being created
\* (workspace_detail.py 327-328).
HasScheduleCard == page = "detail" /\ ~wsCreating

\* loadSchedules() after its await, scripts.py 242-253: a schedule of this
\* workspace and row, if one is saved, sets the time input and checks its
\* days; the function unchecks nothing.  A failed fetch changes nothing.
LoadSchedulesSettle ==
  /\ schedLoad
  /\ schedLoad' = FALSE
  /\ \/ UNCHANGED schedForm
     \/ /\ HasScheduleCard
        /\ \E d \in SUBSET SchedDays :
             schedForm' = [time |-> "09:30", days |-> schedForm.days \cup d]
  /\ ev' = "loadSchedules"
  /\ UNCHANGED <<page, pointerDown, usageVars, liveVars, noteVars, delVars, actVars, bulkVars, pollVars,
                 providerReqs, presetForm, presetReqs, schedReqs, removeReqs>>

\* The user sets the time input or a day checkbox of the row.
EditSchedule ==
  /\ HasScheduleCard
  /\ \E t \in SchedTimes, d \in SUBSET SchedDays :
       /\ [time |-> t, days |-> d] # schedForm
       /\ schedForm' = [time |-> t, days |-> d]
  /\ ev' = "input"
  /\ UNCHANGED <<page, pointerDown, usageVars, liveVars, noteVars, delVars, actVars, bulkVars, pollVars,
                 providerReqs, presetForm, presetReqs, schedReqs, schedLoad, removeReqs>>

\* saveSchedule(action) up to its await, scripts.py 256-266.
saveSchedule ==
  IF schedForm.time = ""
  THEN /\ showToast("Set a time first", FALSE)
       /\ UNCHANGED schedReqs
  ELSE IF schedForm.days = {}
  THEN /\ showToast("Select at least one day", FALSE)
       /\ UNCHANGED schedReqs
  ELSE /\ schedReqs < MaxSaves
       /\ schedReqs' = schedReqs + 1
       /\ UNCHANGED <<toast, toastTimers>>

\* onclick of 'Set' (workspace_detail.py 322).
SaveScheduleClick ==
  /\ HasScheduleCard
  /\ saveSchedule
  /\ ev' = "saveSchedule"
  /\ UNCHANGED <<page, pointerDown, usageVars, liveVars, reloadTimers, delVars, actVars, bulkVars, pollVars,
                 providerReqs, presetForm, presetReqs, schedForm, schedLoad, removeReqs>>

\* saveSchedule after its await, scripts.py 267: a toast.
SaveScheduleSettle(outcome) ==
  /\ schedReqs > 0
  /\ schedReqs' = schedReqs - 1
  /\ IF outcome = "error" THEN showToast("Failed", FALSE) ELSE showToast("d.message", outcome = "ok")
  /\ ev' = "saveSchedule." \o outcome
  /\ UNCHANGED <<page, pointerDown, usageVars, liveVars, reloadTimers, delVars, actVars, bulkVars, pollVars,
                 providerReqs, presetForm, presetReqs, schedForm, schedLoad, removeReqs>>

\* onclick of 'Remove' (workspace_detail.py 324): removeSchedule(action) up
\* to its await, scripts.py 271-273.  The function reads no input.
RemoveScheduleClick ==
  /\ HasScheduleCard
  /\ removeReqs < MaxSaves
  /\ removeReqs' = removeReqs + 1
  /\ ev' = "removeSchedule"
  /\ UNCHANGED <<page, pointerDown, usageVars, liveVars, noteVars, delVars, actVars, bulkVars, pollVars,
                 providerReqs, presetForm, presetReqs, schedForm, schedReqs, schedLoad>>

\* removeSchedule after its awaits, scripts.py 274-281: on an answer, ok or
\* not, the toast and then the clearing of the time input and of every day
\* checkbox; when the fetch or its parsing threw, the toast 'Failed' only.
RemoveScheduleSettle(outcome) ==
  /\ removeReqs > 0
  /\ removeReqs' = removeReqs - 1
  /\ IF outcome = "error"
     THEN /\ showToast("Failed", FALSE)
          /\ UNCHANGED schedForm
     ELSE /\ showToast("d.message", outcome = "ok")
          /\ schedForm' = [time |-> "", days |-> {}]
  /\ ev' = "removeSchedule." \o outcome
  /\ UNCHANGED <<page, pointerDown, usageVars, liveVars, reloadTimers, delVars, actVars, bulkVars, pollVars,
                 providerReqs, presetForm, presetReqs, schedReqs, schedLoad>>

(***************************************************************************)
(* Usage history of the detail page: loadUsageHistory and renderSparkline, *)
(* scripts.py 327-378.                                                     *)
(***************************************************************************)

\* const W=200,H=40,pad=1: scripts.py 346
W == 200
H == 40
pad == 1

\* a / b rounded to the nearest integer, for a >= 0 and b > 0
RoundDiv(a, b) == (2 * a + b) \div (2 * b)

\* Math.min(...vals) and Math.max(...vals) of a non-empty series
MinOf(vals) == CHOOSE v \in {vals[i] : i \in DOMAIN vals} : \A i \in DOMAIN vals : v <= vals[i]
MaxOf(vals) == CHOOSE v \in {vals[i] : i \in DOMAIN vals} : \A i \in DOMAIN vals : v >= vals[i]

\* `a||1`: a, or 1 when a is 0
OrOne(a) == IF a = 0 THEN 1 ELSE a

\* renderSparkline with y growing with the value: the series drawn upside down.
renderSparklineUpsideDown(vals) ==
  LET minV == MinOf(vals)
      range == OrOne(MaxOf(vals) - minV)
      n == Len(vals)
  IN [k \in 1..n |->
        [x |-> 10 * pad + RoundDiv((k - 1) * 10 * (W - 2 * pad), OrOne(n - 1)),
         y |-> RoundDiv(10 * pad * range + (vals[k] - minV) * 10 * (H - 2 * pad), range)]]

\* The points of renderSparkline for the non-empty series vals, scripts.py
\* 347-354, each coordinate as toFixed(1) prints it, in tenths: point i (from
\* 0) has x = pad+(i/(n-1||1))*(W-2*pad) and y = H-pad-((v-minV)/range)*(H-2*pad).
renderSparkline(vals) ==
  LET minV == MinOf(vals)
      maxV == MaxOf(vals)
      range == OrOne(maxV - minV)
      n == Len(vals)
  IN [k \in 1..n |->
        [x |-> 10 * pad + RoundDiv((k - 1) * 10 * (W - 2 * pad), OrOne(n - 1)),
         y |-> RoundDiv(10 * (H - pad) * range - (vals[k] - minV) * 10 * (H - 2 * pad), range)]]

\* 1024, 1024^2 and 1024^3: the thresholds and divisors of formatBytes,
\* scripts.py 380-382
Ki == 1024
Mi == 1048576
Gi == 1073741824

\* m * r / U rounded to the nearest integer, the half upwards, for
\* 0 <= r < U and U a multiple of Ki; r is split at Ki so that no intermediate
\* value exceeds a 32-bit integer.
RoundScaled(r, m, U) ==
  LET rh == r \div Ki
      rl == r % Ki
      u == U \div Ki
  IN (2 * m * rh + u + (2 * m * rl) \div Ki) \div (2 * u)

\* toFixed cutting the digits off instead of rounding
toFixedTruncate(b, U, f) ==
  LET m == IF f = 0 THEN 1 ELSE 10
      n == (b \div U) * m + RoundScaled(b % U, m, U)
      t == IF n > 0 /\ RoundScaled(b % U, 2 * m, U) % 2 = 1 THEN n - 1 ELSE n
  IN IF f = 0 THEN ToString(t)
     ELSE ToString(t \div 10) \o "." \o ToString(t % 10)

\* (b/U).toFixed(f) for f = 0 or 1: the decimal numeral with f digits after
\* the point nearest to b/U, the larger one of two equally near.
toFixed(b, U, f) ==
  LET m == IF f = 0 THEN 1 ELSE 10
      n == (b \div U) * m + RoundScaled(b % U, m, U)
  IN IF f = 0 THEN ToString(n)
     ELSE ToString(n \div 10) \o "." \o ToString(n % 10)

\* formatBytes, scripts.py 380-385
formatBytes(b) ==
  IF b >= Gi THEN toFixed(b, Gi, 1) \o "Gi"
  ELSE IF b >= Mi THEN toFixed(b, Mi, 0) \o "Mi"
  ELSE IF b >= Ki THEN toFixed(b, Ki, 0) \o "Ki"
  ELSE ToString(b) \o "B"

\* A value as renderSparkline prints it for its unit, scripts.py 367-368
FormatValue(v, unit) == IF unit = "bytes" THEN formatBytes(v) ELSE ToString(v) \o "m"

\* The texts renderSparkline gives to the -val, -min and -max elements of a
\* sparkline for the non-empty series vals, scripts.py 362-377.
renderLabels(vals, unit) ==
  [val |-> FormatValue(vals[Len(vals)], unit),
   min |-> "min: " \o FormatValue(MinOf(vals), unit),
   max |-> "max: " \o FormatValue(MaxOf(vals), unit)]

\* The answers of /api/usage-history/<pod>: rows [t, cpu, mem], of which the
\* model keeps the two values.
Samples == [cpu : 0..MaxSample, mem : 0..MaxSample]
Histories == UNION {[1..n -> Samples] : n \in 0..MaxSamples}

\* Byte counts on and between the thresholds of formatBytes, at the halves
\* where toFixed rounds, and the byte counts around them.
BytePoints ==
  {0, Ki \div 2, Ki, Ki + Ki \div 2, Mi - Ki \div 2, Mi, Mi + Mi \div 2,
   Gi - Mi \div 2, Gi, Gi + Gi \div 20, Gi + Gi \div 2}
ByteInputs == {b \in {p + d : p \in BytePoints, d \in (0 - MaxOffset)..MaxOffset} : b >= 0}

\* The series of field f of the history data.
Series(data, f) == [i \in DOMAIN data |-> data[i][f]]

\* loadUsageHistory after its await, scripts.py 331-339, on the answer data:
\* an empty history renders nothing; otherwise both sparklines are rendered,
\* if the page has the card (a running workspace, workspace_detail.py 154).
LoadUsageSettle(data) ==
  /\ usageLoad
  /\ usageLoad' = FALSE
  /\ IF data = <<>> \/ ~Running
     THEN UNCHANGED <<usageData, sparkCpu, sparkMem, sparkCpuLbl, sparkMemLbl>>
     ELSE /\ usageData' = data
          /\ sparkCpu' = renderSparkline(Series(data, "cpu"))
          /\ sparkMem' = renderSparkline(Series(data, "mem"))
          /\ sparkCpuLbl' = renderLabels(Series(data, "cpu"), "m")
          /\ sparkMemLbl' = renderLabels(Series(data, "mem"), "bytes")
  /\ ev' = "loadUsageHistory"
  /\ UNCHANGED <<page, pointerDown, liveVars, noteVars, delVars, actVars, bulkVars, pollVars, saveVars>>

(***************************************************************************)
(* SpecRefresh: a page of a running workspace, from its load.              *)
(***************************************************************************)
InitNotes ==
  /\ toast = [display |-> "none", text |-> "", cls |-> "toast"]
  /\ toastTimers = <<>>
  /\ reloadTimers = <<>>

InitDelete ==
  /\ deleteBtn = DeleteButton
  /\ disarmTimers = <<>>
  /\ deleteReqs = 0
  /\ sinceArm = -1
  /\ failedNoClick = FALSE

InitAction(kind) ==
  /\ actionKind = kind
  /\ actionBtn = ActionButton(kind)
  /\ actionCalls = <<>>
  /\ createBtn = CreateButton
  /\ createForm = [repo |-> "", name |-> ""]
  /\ createReqs = 0

InitBulk ==
  /\ checked = {}
  /\ selectAll = FALSE
  /\ barVisible = FALSE
  /\ bulkCount = 0
  /\ barDisabled = FALSE
  /\ bulkReqs = <<>>

InitSave ==
  /\ providerReqs = 0
  /\ presetForm = [name |-> "", repo |-> ""]
  /\ presetReqs = 0
  /\ schedForm = [time |-> "", days |-> {}]
  /\ removeReqs = 0
  /\ schedReqs = 0
  /\ schedLoad = (page = "detail")

InitUsage ==
  /\ usageLoad = (page = "detail")
  /\ usageData = <<>>
  /\ sparkCpu = <<>>
  /\ sparkMem = <<>>
  /\ sparkCpuLbl = NoLabels
  /\ sparkMemLbl = NoLabels

InitPage ==
  /\ page \in {"main", "detail"}
  /\ pointerDown = FALSE
  /\ ev = "load"
  /\ timers = {1}
  /\ rt = (IF page = "main" THEN 1 ELSE 0)
  /\ detailRefresh = (IF page = "detail" THEN 1 ELSE 0)
  /\ termWs = 0
  /\ termObj = FALSE
  /\ sockets = [s \in SocketIds |-> "none"]
  /\ connectBtn = ""
  /\ disconnectBtn = "none"
  /\ termStatus = "Ready"
  /\ lastTermCall = "none"
  /\ evtSource = 0
  /\ streams = {}
  /\ logBtn = "Start streaming"
  /\ logStatus = (IF wsCreating THEN "Polling..." ELSE "Ready")
  /\ creationPoll = (IF wsCreating /\ page = "detail" THEN PollHandle ELSE 0)
  /\ pollLeft = (IF wsCreating /\ page = "detail" THEN Ticks(PollMs) ELSE -1)
  /\ InitNotes
  /\ InitDelete
  /\ InitBulk
  /\ InitSave
  /\ InitUsage
  /\ pollReqs = {}
  /\ issued = 0
  /\ viewer = 0
  /\ pollDone = FALSE

\* A page showing a running workspace, right after its load.
Init ==
  /\ wsCreating = FALSE
  /\ InitPage
  /\ InitAction("stop")

NextRefresh ==
  \/ MouseDown
  \/ MouseUp
  \/ RefreshFire
  \/ ConnectClick
  \/ DisconnectClick
  \/ \E s \in SocketIds : SocketOpen(s)
  \/ \E s \in SocketIds : SocketClose(s)
  \/ \E s \in SocketIds : SocketError(s)
  \/ StartLogStream
  \/ \E es \in StreamIds : StreamError(es)

SpecRefresh == Init /\ [][NextRefresh]_vars

\* The close event of a socket the page has closed (close() on an open or on a
\* connecting socket): the browser fires it once the closing handshake is done
\* or has timed out.
SocketEnd(s) ==
  /\ sockets[s] \in {"closing", "aborting"}
  /\ (SocketClose(s) \/ SocketError(s))

\* SpecRefresh where no socket stays in its closing handshake for ever.
SpecRefreshLive == SpecRefresh /\ \A s \in SocketIds : WF_vars(SocketEnd(s))

(***************************************************************************)
(* SpecDelete: the delete control of a page, from the page's load.         *)
(***************************************************************************)
NextDelete ==
  \/ ConfirmDeleteClick
  \/ \E o \in Outcomes : DeleteSettle(o)
  \/ DisarmFire
  \/ ToastHide
  \/ ReloadFire
  \/ Tick

SpecDelete == Init /\ [][NextDelete]_vars

(***************************************************************************)
(* SpecAction: the Start/Stop button of a running or a stopped workspace   *)
(* and the create bar.                                                     *)
(***************************************************************************)
InitAnyKind ==
  /\ wsCreating = FALSE
  /\ InitPage
  /\ \E kind \in {"start", "stop"} : InitAction(kind)

NextAction ==
  \/ DoActionClick
  \/ \E o \in Outcomes : DoActionSettle(o)
  \/ EditForm
  \/ \E byEnter \in BOOLEAN : CreateCall(byEnter)
  \/ \E o \in Outcomes : CreateSettle(o)
  \/ ToastHide
  \/ ReloadFire
  \/ Tick

SpecAction == InitAnyKind /\ [][NextAction]_vars

(***************************************************************************)
(* SpecBulk: the row checkboxes and the bulk-action bar of the main page.  *)
(***************************************************************************)
InitMain ==
  /\ Init
  /\ page = "main"

NextBulk ==
  \/ \E r \in Rows : ToggleRow(r)
  \/ ToggleSelectAll
  \/ \E a \in BulkActions, c \in BOOLEAN : BulkClick(a, c)
  \/ \E o \in Outcomes : BulkSettle(o)
  \/ ToastHide
  \/ ReloadFire
  \/ Tick

SpecBulk == InitMain /\ [][NextBulk]_vars

(***************************************************************************)
(* SpecPoll: the detail page of a workspace that is being created.         *)
(***************************************************************************)
InitCreating ==
  /\ wsCreating = TRUE
  /\ InitPage
  /\ page = "detail"
  /\ InitAction("stop")

NextPoll ==
  \/ PollTick
  \/ \E n \in 1..MaxPolls, creating \in BOOLEAN : PollSettle(n, creating)
  \/ \E n \in 1..MaxPolls : PollFail(n)
  \/ ReloadFire
  \/ Tick

SpecPoll == InitCreating /\ [][NextPoll]_vars

(***************************************************************************)
(* SpecLogs: the logs card of the detail page, for every combination of    *)
(* detail["creating"] and detail["running"].                               *)
(***************************************************************************)
InitAnyDetail ==
  /\ wsCreating \in BOOLEAN
  /\ InitPage
  /\ page = "detail"
  /\ \E kind \in {"start", "stop"} : InitAction(kind)

NextLogs ==
  \/ StartLogStream
  \/ \E es \in StreamIds : StreamError(es)
  \/ PollTick
  \/ \E n \in 1..MaxPolls, creating \in BOOLEAN : PollSettle(n, creating)
  \/ \E n \in 1..MaxPolls : PollFail(n)
  \/ RefreshFire
  \/ ReloadFire
  \/ Tick

SpecLogs == InitAnyDetail /\ [][NextLogs]_vars

(***************************************************************************)
(* SpecForms: the controls that require an input: the create bar and the   *)
(* template form of the main page, the schedule row of the detail page.    *)
(***************************************************************************)
NextForms ==
  \/ EditForm
  \/ \E byEnter \in BOOLEAN : CreateCall(byEnter)
  \/ \E o \in Outcomes : CreateSettle(o)
  \/ EditPreset
  \/ SavePresetClick
  \/ \E o \in Outcomes : SavePresetSettle(o)
  \/ LoadSchedulesSettle
  \/ EditSchedule
  \/ SaveScheduleClick
  \/ \E o \in Outcomes : SaveScheduleSettle(o)
  \/ ToastHide
  \/ ReloadFire
  \/ Tick

SpecForms == Init /\ [][NextForms]_vars

(***************************************************************************)
(* SpecSettings: the 'Save Defaults' button of the settings card.          *)
(***************************************************************************)
NextSettings ==
  \/ SaveProviderClick
  \/ \E o \in Outcomes : SaveProviderSettle(o)
  \/ ToastHide
  \/ Tick

SpecSettings == InitMain /\ [][NextSettings]_vars

(***************************************************************************)
(* SpecControls: the controls of a workspace on either page, for every     *)
(* combination of its creating and running flags.                          *)
(***************************************************************************)
InitAnyPage ==
  /\ wsCreating \in BOOLEAN
  /\ InitPage
  /\ \E kind \in {"start", "stop"} : InitAction(kind)

NextControls ==
  \/ DoActionClick
  \/ ConnectClick
  \/ DisconnectClick
  \/ \E s \in SocketIds : SocketOpen(s)
  \/ \E s \in SocketIds : SocketClose(s)
  \/ \E s \in SocketIds : SocketError(s)
  \/ StartLogStream
  \/ \E es \in StreamIds : StreamError(es)
  \/ RefreshFire

SpecControls == InitAnyPage /\ [][NextControls]_vars

\* The detail page of a running workspace.
InitDetail ==
  /\ Init
  /\ page = "detail"

(***************************************************************************)
(* SpecSchedule: the schedule row of the detail page and its 'Remove'      *)
(* button.                                                                 *)
(***************************************************************************)
NextSchedule ==
  \/ LoadSchedulesSettle
  \/ EditSchedule
  \/ RemoveScheduleClick
  \/ \E o \in Outcomes : RemoveScheduleSettle(o)
  \/ ToastHide
  \/ Tick

SpecSchedule == InitDetail /\ [][NextSchedule]_vars

(***************************************************************************)
(* SpecUsage: the usage sparklines of the detail page of a running         *)
(* workspace, for every usage history within the bounds.                   *)
(***************************************************************************)
NextUsage ==
  \/ \E data \in Histories : LoadUsageSettle(data)
  \/ RefreshFire

SpecUsage == InitDetail /\ [][NextUsage]_vars

(***************************************************************************)
(* SpecBytes: the memory labels of the usage card for a history of one     *)
(* sample, for every byte count of ByteInputs.                             *)
(***************************************************************************)
NextBytes ==
  \/ \E b \in ByteInputs : LoadUsageSettle(<<[cpu |-> 0, mem |-> b]>>)
  \/ RefreshFire

SpecBytes == InitDetail /\ [][NextBytes]_vars

(***************************************************************************)
(* Claims about the auto-refresh timer and the terminal session.           *)
(***************************************************************************)

\* The terminal session is connected: termWs refers to a socket whose open
\* event fired and that has not ended.
TerminalConnected == page = "detail" /\ termWs # 0 /\ sockets[termWs] = "open"

\* C1: on the detail page no auto-refresh timer is pending while a terminal
\* session is connected, whatever pointer, click and socket events occur.
C1_NoTimerWhileTerminalConnected == TerminalConnected => timers = {}

\* C2: on the detail page no auto-refresh timer is pending while a tailing log
\* stream is active (evtSource refers to an open push channel).
C2_NoTimerWhileLogStreaming == (page = "detail" /\ evtSource # 0) => timers = {}

\* C3 (its first half): no automatic reload fires after a pointer-down and
\* before the next pointer-up, for any sequence of pointer events.
C3_NoReloadWhilePointerDown == ev = "reload" => ~pointerDown

\* C4: at most one auto-refresh interval timer is pending, and the handle
\* variable (rt / detailRefresh) refers to it.
C4_SingleRefreshTimer == Cardinality(timers) <= 1 /\ timers \subseteq {Handle}

\* C10: a connectTerminal call that follows a connectTerminal call which opened
\* a socket, with no disconnectTerminal in between, leaves the page as a
\* disconnectTerminal does: no stream handle, no rendering surface, Connect
\* shown, Disconnect hidden, the first socket closed by the page, and no
\* second socket opened.
C10_SecondConnectIsDisconnect ==
  [][(ev' = "connectTerminal" /\ lastTermCall = "connect") =>
       /\ termWs # 0
       /\ termWs' = 0
       /\ termObj' = FALSE
       /\ connectBtn' = ""
       /\ disconnectBtn' = "none"
       /\ termStatus' = "Disconnected"
       /\ sockets'[termWs] \notin {"connecting", "open"}
       /\ \A s \in SocketIds : sockets'[s] = "connecting" => sockets[s] = "connecting"]_vars

\* C10 witness: a second connectTerminal call has just run as a disconnect on a
\* socket that had opened in between (it is now in its closing handshake).
C10_Witness ==
  /\ ev = "connectTerminal"
  /\ lastTermCall = "disconnect"
  /\ termWs = 0
  /\ \E s \in SocketIds : sockets[s] = "closing"

(***************************************************************************)
(* Claims about the delete control.                                        *)
(***************************************************************************)

\* C6: after any history of the control, the control stays armed with the
\* label 'Confirm?' for the 3000 ms that follow an arming click (so that a
\* second click within them fires the delete), and without a second click it
\* is back to the unarmed 'Delete' label once the 3000 ms have passed.
C6_ArmedForThreeSeconds ==
  /\ sinceArm \in 0..(Ticks(DisarmMs) - 1) => (deleteBtn.armed /\ deleteBtn.text = "Confirm?")
  /\ sinceArm > Ticks(DisarmMs) => (~deleteBtn.armed /\ deleteBtn.text = "Delete")

\* C7: a delete control has at most one disarm timeout pending.
C7_SingleDisarmTimer == Len(disarmTimers) <= 1

\* C8: when the delete fired from an armed control fails (ok:false or a
\* transport error) the control is Unarmed: no armed marker, label 'Delete',
\* neutral style, enabled; and the next click on it arms it and sends no
\* delete request.
C8_FailedDeleteEndsUnarmed ==
  [][/\ failedNoClick' => deleteBtn' = DeleteButton
     /\ (failedNoClick /\ ev' = "confirmDelete") =>
          /\ deleteBtn'.armed
          /\ deleteBtn'.text = "Confirm?"
          /\ deleteReqs' = deleteReqs]_vars

\* C8 witness: a delete has failed with a transport error, and the control
\* has just been clicked again and is armed, with no request in flight.
C8_Witness ==
  /\ ev = "confirmDelete"
  /\ deleteBtn.armed
  /\ deleteReqs = 0
  /\ toast.text = "Failed"

(***************************************************************************)
(* Claims about the controls an action disables.                           *)
(***************************************************************************)

\* A reload scheduled by action `by` is pending.
ReloadPendingBy(by) == \E i \in DOMAIN reloadTimers : reloadTimers[i].by = by

\* C5: once the request of a control has settled, the control is re-enabled
\* with its original label or the action has scheduled a page reload: no
\* control is disabled with no request in flight and no reload pending.  The
\* controls are the Start/Stop button, the Delete button, the create button
\* and the buttons of the bulk bar.
C5_SettledControlRecovers ==
  /\ (actionBtn.disabled /\ actionCalls = <<>>) => ReloadPendingBy("doAction")
  /\ (~actionBtn.disabled) => actionBtn = ActionButton(actionKind)
  /\ (deleteBtn.disabled /\ deleteReqs = 0) => ReloadPendingBy("doDelete")
  /\ (createBtn.disabled /\ createReqs = 0) => ReloadPendingBy("createWorkspace")
  /\ (~createBtn.disabled) => createBtn = CreateButton
  /\ (barDisabled /\ bulkReqs = <<>>) => ReloadPendingBy("bulkAction")

(***************************************************************************)
(* Claims about the creation-log poll.                                     *)
(***************************************************************************)

\* The reloads the creation poll has scheduled.
PollReloads == {i \in DOMAIN reloadTimers : reloadTimers[i].by = "creationPoll"}

\* C9: once an answer reported creating:false, the poll issues no further
\* request, and exactly one page reload is scheduled in total, however poll
\* ticks and answers interleave.
C9_PollStopsWithOneReload ==
  [][/\ pollDone => ev' # "pollTick"
     /\ pollDone' => Cardinality(PollReloads') = 1]_vars

\* C23: no request is re-issued automatically after it failed; for the
\* creation-log poll: once a poll request has failed (the status reads
\* 'Poll error'), the page, on which the user does nothing, sends no further
\* request to the creation-log endpoint.
C23_NoAutomaticReissue ==
  [][logStatus = "Poll error" => ev' # "pollTick"]_vars

\* C29: in creation-poll mode the log viewer never goes back to an older
\* buffer: after every answer it shows the buffer of the most recently issued
\* request among those answered, so the request whose buffer it shows never
\* gets older.
C29_ViewerNeverGoesBack ==
  [][ev' = "pollAnswer" => viewer' >= viewer]_vars

(***************************************************************************)
(* Claims about the end of a terminal session.                             *)
(***************************************************************************)

\* C11: when the remote end closes a connected terminal session, the stream
\* handle and the rendering surface are released (termWs and termObj empty),
\* so that the next click on Connect opens a session.
C11_RemoteCloseReleases ==
  [][(ev' = "onclose" /\ TerminalConnected /\ sockets'[termWs] = "closed") =>
       (termWs' = 0 /\ termObj' = FALSE)]_vars

\* C12: the end of a terminal session resumes the refresh scheduler: the close
\* event of a socket (remote close, transport error, or the completion of a
\* local disconnect) leaves a refresh timer pending, and after a local
\* disconnect that event, and with it a pending timer, eventually comes.
C12_SessionEndResumes ==
  /\ [][ev' \in {"onclose", "onerror"} => detailRefresh' \in timers']_vars
  /\ \A s \in SocketIds : (sockets[s] \in {"closing", "aborting"}) ~> (timers # {})

\* C12 witness: a session had opened (onopen cancelled the timer of the load),
\* it was disconnected by the page, and its close event has just armed a new
\* timer, the only one pending.
C12_Witness ==
  /\ ev = "onclose"
  /\ lastTermCall = "disconnect"
  /\ termWs = 0
  /\ timers = {detailRefresh}
  /\ detailRefresh # 1

(***************************************************************************)
(* Claims about the sessions a page owns.                                  *)
(***************************************************************************)

\* The sockets of the page that are connecting or open.
LiveSockets == {s \in SocketIds : sockets[s] \in {"connecting", "open"}}

\* C13: the page holds at most one terminal socket that is connecting or open,
\* the one termWs refers to, and at most one open log push channel, the one
\* evtSource refers to.
C13_SingleSessionHandles ==
  /\ Cardinality(LiveSockets) <= 1
  /\ LiveSockets \subseteq {termWs}
  /\ Cardinality(streams) <= 1
  /\ streams \subseteq {evtSource}

\* C13 witness: a second socket is open while the first one, disconnected by
\* the page, is still in its closing handshake, and a log stream is open.
C13_Witness ==
  /\ \E s1, s2 \in SocketIds : sockets[s1] = "closing" /\ sockets[s2] = "open" /\ termWs = s2
  /\ evtSource # 0

(***************************************************************************)
(* Claims about the requests of the controls.                              *)
(***************************************************************************)

\* C14: at most one request issued from a control is in flight at any time;
\* a second activation of the control while its request is unsettled issues
\* no second request.  The controls: the Start/Stop button, the Delete
\* button, the create bar, the bulk bar, 'Save Defaults', 'Save Template'
\* and 'Set' of the schedule row.
C14_OneRequestPerControl ==
  /\ Len(actionCalls) <= 1
  /\ deleteReqs <= 1
  /\ createReqs <= 1
  /\ Len(bulkReqs) <= 1
  /\ providerReqs <= 1
  /\ presetReqs <= 1
  /\ schedReqs <= 1

(***************************************************************************)
(* Claims about the log card.                                              *)
(***************************************************************************)

\* C15: the log-stream control reads 'Stop streaming' exactly when a push
\* channel is open and 'Start streaming' exactly when none is, after any
\* sequence of clicks on it and of stream errors; the open channel is the one
\* evtSource refers to.
C15_LabelTracksStream ==
  /\ (logBtn = "Stop streaming") <=> (streams # {})
  /\ (logBtn = "Start streaming") <=> (streams = {})
  /\ (evtSource # 0) <=> (streams # {})
  /\ streams \subseteq {evtSource}

\* C15 witness: a stream error has just closed the channel and reset the
\* control as a stop does.
C15_Witness ==
  /\ ev = "streamError"
  /\ logStatus = "Disconnected"
  /\ logBtn = "Start streaming"
  /\ streams = {}

\* C16: the two log delivery modes are never active together on a page: for
\* every combination of the creating and running flags, no push channel is
\* open on a page that started the creation poll.
C16_LogModesExclusive == ~(creationPoll # 0 /\ streams # {})

\* C16 witness: the page of a workspace reported as both creating and
\* running polls the creation log (an answer has arrived) and has no push
\* channel.
C16_Witness ==
  /\ wsCreating
  /\ Running
  /\ creationPoll # 0
  /\ viewer # 0
  /\ streams = {}

(***************************************************************************)
(* Claims about the bulk selection.                                        *)
(***************************************************************************)

\* C17 as stated: the bulk bar is visible iff at least one row is checked,
\* and the count label equals the number of checked rows.
C17_CountAlwaysEqual ==
  /\ barVisible <=> (checked # {})
  /\ bulkCount = Cardinality(checked)

\* C17, amended: the bulk bar is visible iff at least one row is checked, and
\* while it is visible the count label equals the number of checked rows.
C17_BarTracksSelection ==
  /\ barVisible <=> (checked # {})
  /\ barVisible => bulkCount = Cardinality(checked)

\* C17 witness: after select-all, one row was unchecked: the bar is still
\* shown and counts the rows left.
C17_Witness ==
  /\ ev = "check"
  /\ selectAll
  /\ barVisible
  /\ checked # {} /\ checked # Rows
  /\ bulkCount = Cardinality(checked)

\* The bulkAction calls, as recorded in ev.
BulkCalls == {BulkCallName(a, c) : a \in BulkActions, c \in BOOLEAN}

\* The request a bulkAction call sends for the rows checked now: the
\* descriptors of the workspaces for delete, the pods for start and stop.
BulkPayload(call) ==
  IF call \in {"bulkAction:delete:yes", "bulkAction:delete:no"}
  THEN [action |-> "delete", kind |-> "workspaces", rows |-> checked]
  ELSE [action |-> IF call = "bulkAction:start" THEN "start" ELSE "stop", kind |-> "pods", rows |-> checked]

MissingInput ==
  \/ ev' = "createWorkspace" /\ Trim(createForm.repo) = ""
  \/ ev' = "savePreset" /\ (Trim(presetForm.name) = "" \/ Trim(presetForm.repo) = "")
  \/ ev' = "saveSchedule" /\ (schedForm.time = "" \/ schedForm.days = {})

\* C19: an action called with a required input missing sends no request,
\* shows a negative toast, changes no control (it disables none) and changes
\* no input.
C19_MissingInputShortCircuits ==
  [][MissingInput =>
       /\ UNCHANGED <<createReqs, presetReqs, schedReqs, removeReqs>>
       /\ toast'.display = "block" /\ toast'.cls = "toast err"
       /\ toast'.text \in {"Enter a repository URL", "Name and repo URL required",
                           "Set a time first", "Select at least one day"}
       /\ UNCHANGED <<createBtn, actionBtn, deleteBtn, barDisabled>>
       /\ UNCHANGED <<createForm, presetForm, schedForm, removeReqs>>]_vars

\* C19 witness: createWorkspace was called with only white space in #repo:
\* the toast asks for a repository URL, nothing was sent, the button is
\* enabled and the input keeps its value.
C19_Witness ==
  /\ ev = "createWorkspace"
  /\ createForm.repo = " "
  /\ toast = [display |-> "block", text |-> "Enter a repository URL", cls |-> "toast err"]
  /\ createReqs = 0
  /\ createBtn = CreateButton

(***************************************************************************)
(* Claims about the usage sparklines.                                      *)
(***************************************************************************)

\* The series of a polyline's samples is constant.
Constant(vals) == \A i, j \in DOMAIN vals : vals[i] = vals[j]

\* C20: renderSparkline draws a constant series, of any length >= 1, as a
\* flat line at the vertical middle of the canvas, y = H/2 = 20.
C20_ConstantSeriesMidLine ==
  /\ (sparkCpu # <<>> /\ Constant(Series(usageData, "cpu"))) =>
       \A i \in DOMAIN sparkCpu : sparkCpu[i].y = 10 * (H \div 2)
  /\ (sparkMem # <<>> /\ Constant(Series(usageData, "mem"))) =>
       \A i \in DOMAIN sparkMem : sparkMem[i].y = 10 * (H \div 2)

\* The least and the greatest value of a non-empty series.
Least(vals) == CHOOSE v \in {vals[i] : i \in DOMAIN vals} : \A i \in DOMAIN vals : v <= vals[i]
Greatest(vals) == CHOOSE v \in {vals[i] : i \in DOMAIN vals} : \A i \in DOMAIN vals : v >= vals[i]

\* The labels lbl show the last, the least and the greatest sample of vals.
LabelsShow(lbl, vals, unit) ==
  /\ lbl.val = FormatValue(vals[Len(vals)], unit)
  /\ lbl.min = "min: " \o FormatValue(Least(vals), unit)
  /\ lbl.max = "max: " \o FormatValue(Greatest(vals), unit)

\* In the path pts of vals the x grow strictly with the sample's place.
XIncreasing(pts) == \A i, j \in DOMAIN pts : i < j => pts[i].x < pts[j].x

\* In the path pts of vals the greatest samples are the highest points and the
\* least samples the lowest.
ExtremesOrdered(pts, vals) ==
  \A i \in DOMAIN pts :
    /\ vals[i] = Greatest(vals) => \A j \in DOMAIN pts : pts[i].y <= pts[j].y
    /\ vals[i] = Least(vals) => \A j \in DOMAIN pts : pts[i].y >= pts[j].y

\* In the path pts of vals the greatest samples lie on y = pad and the least
\* on y = H - pad.
ExtremesOnEdges(pts, vals) ==
  \A i \in DOMAIN pts :
    /\ vals[i] = Greatest(vals) => pts[i].y = 10 * pad
    /\ vals[i] = Least(vals) => pts[i].y = 10 * (H - pad)

\* C21 as stated: for every non-empty series the min, max and value labels
\* show the minimum, the maximum and the last sample, the samples with the
\* maximum lie on the top (smallest y, y = pad), those with the minimum on the
\* bottom (largest y, y = H - pad), and x grows strictly in sample order.
C21_ExtremesOnEdgesAlways ==
  /\ sparkCpu # <<>> =>
       /\ LabelsShow(sparkCpuLbl, Series(usageData, "cpu"), "m")
       /\ ExtremesOrdered(sparkCpu, Series(usageData, "cpu"))
       /\ ExtremesOnEdges(sparkCpu, Series(usageData, "cpu"))
       /\ XIncreasing(sparkCpu)
  /\ sparkMem # <<>> =>
       /\ LabelsShow(sparkMemLbl, Series(usageData, "mem"), "bytes")
       /\ ExtremesOrdered(sparkMem, Series(usageData, "mem"))
       /\ ExtremesOnEdges(sparkMem, Series(usageData, "mem"))
       /\ XIncreasing(sparkMem)

\* C21 amended: as above, but the top is y = pad and the bottom y = H - pad
\* only for a series that is not constant; in a constant series every sample
\* is both the maximum and the minimum and the two cannot lie on both edges.
C21_ExtremesOnEdgesUnlessConstant ==
  /\ sparkCpu # <<>> =>
       /\ LabelsShow(sparkCpuLbl, Series(usageData, "cpu"), "m")
       /\ ExtremesOrdered(sparkCpu, Series(usageData, "cpu"))
       /\ ~Constant(Series(usageData, "cpu")) => ExtremesOnEdges(sparkCpu, Series(usageData, "cpu"))
       /\ XIncreasing(sparkCpu)
  /\ sparkMem # <<>> =>
       /\ LabelsShow(sparkMemLbl, Series(usageData, "mem"), "bytes")
       /\ ExtremesOrdered(sparkMem, Series(usageData, "mem"))
       /\ ~Constant(Series(usageData, "mem")) => ExtremesOnEdges(sparkMem, Series(usageData, "mem"))
       /\ XIncreasing(sparkMem)

C21_Witness ==
  /\ ev = "loadUsageHistory"
  /\ Series(usageData, "cpu") = <<1, 0, 2>>
  /\ sparkCpu = <<[x |-> 10, y |-> 200], [x |-> 1000, y |-> 390], [x |-> 1990, y |-> 10]>>
  /\ sparkCpuLbl = [val |-> "2m", min |-> "min: 0m", max |-> "max: 2m"]
  /\ sparkMemLbl.max = "max: 2B"

(***************************************************************************)
(* Claims about formatBytes.                                               *)
(***************************************************************************)

\* txt is the integer nearest to b/U (the half upwards), one of Numbers,
\* followed by the unit.
RoundedIn(txt, b, U, unit, Numbers) ==
  \E n \in Numbers :
    /\ txt = ToString(n) \o unit
    /\ n * U - U \div 2 <= b
    /\ b < n * U + U \div 2

\* txt is a numeral with one decimal, within a tenth of b/Gi, followed by Gi.
OneDecimalGi(txt, b) ==
  \E t \in 10..20 :
    /\ txt = ToString(t \div 10) \o "." \o ToString(t % 10) \o "Gi"
    /\ t * (Gi \div 10) - Gi \div 10 <= b
    /\ b <= t * (Gi \div 10) + Gi \div 10

\* The text txt is the byte count b in its unit, the number of a Ki or Mi
\* text being one of Numbers.
BytesShown(txt, b, Numbers) ==
  /\ b < Ki => txt = ToString(b) \o "B"
  /\ (Ki <= b /\ b < Mi) => RoundedIn(txt, b, Ki, "Ki", Numbers)
  /\ (Mi <= b /\ b < Gi) => RoundedIn(txt, b, Mi, "Mi", Numbers)
  /\ b >= Gi => OneDecimalGi(txt, b)
  /\ b = 1073741824 => txt = "1.0Gi"
  /\ b = 1048576 => txt = "1Mi"
  /\ b = 512 => txt = "512B"

\* C22 as stated: formatBytes picks B, Ki, Mi, Gi by the thresholds 1024,
\* 2^20, 2^30, prints B exactly, Ki and Mi rounded to an integer that is
\* always below 1024, and Gi with one decimal; 2^30 gives "1.0Gi", 2^20
\* "1Mi" and 512 "512B".
C22_FormatBytesBelow1024 ==
  sparkMem # <<>> =>
    BytesShown(sparkMemLbl.val, usageData[Len(usageData)].mem, 1..(Ki - 1))

\* C22 amended: the same, the printed number of a Ki or Mi result being at
\* most 1024: a byte count within half a unit below the next threshold
\* rounds up to 1024.
C22_FormatBytesUpTo1024 ==
  sparkMem # <<>> =>
    BytesShown(sparkMemLbl.val, usageData[Len(usageData)].mem, 1..Ki)

C22_Witness ==
  /\ ev = "loadUsageHistory"
  /\ usageData = <<[cpu |-> 0, mem |-> 1048064]>>
  /\ sparkMemLbl = [val |-> "1024Ki", min |-> "min: 1024Ki", max |-> "max: 1024Ki"]

(***************************************************************************)
(* Claims about the outcome of an action.                                  *)
(***************************************************************************)

\* C24: an action that settles with ok:true shows a positive toast and
\* schedules a page reload with a delay between 2000 ms and 3000 ms; one that
\* settles with ok:false or a transport error schedules no reload.  Here for
\* the settings group 'Save Defaults'.
C24_SuccessSchedulesReload ==
  [][/\ ev' = "saveProvider.ok" =>
          /\ toast'.display = "block" /\ toast'.cls = "toast ok"
          /\ Len(reloadTimers') = Len(reloadTimers) + 1
          /\ reloadTimers'[Len(reloadTimers')].delay \in 2000..3000
     /\ ev' \in {"saveProvider.notok", "saveProvider.error"} => reloadTimers' = reloadTimers]_vars

(***************************************************************************)
(* Claims about the callbacks of a terminal socket that was replaced.      *)
(***************************************************************************)

\* A close or error event of a socket that is not the current session arrives
\* while the current session is connected.
StaleSocketEvent ==
  /\ ev' \in {"onclose", "onerror"}
  /\ TerminalConnected
  /\ \E s \in SocketIds \ {termWs} :
       /\ sockets[s] \in {"closing", "aborting"}
       /\ sockets'[s] \notin {"closing", "aborting"}

\* C25: a late close or error event of a socket that is no longer the current
\* session does not tear down the current socket or rendering surface, does
\* not change the visibility of the connect and disconnect controls or the
\* status text, and does not re-arm the refresh timer while the new session
\* is connected.
C25_StaleCallbacksHarmless ==
  [][StaleSocketEvent =>
       /\ UNCHANGED <<termWs, termObj, connectBtn, disconnectBtn, termStatus, timers>>
       /\ sockets'[termWs] = "open"]_vars

(***************************************************************************)
(* Claims about the delete control while its request is in flight.         *)
(***************************************************************************)

\* C26: while a delete request fired from the armed control is in flight the
\* control is disabled and labelled 'Deleting...', however long the request
\* takes, and the auto-disarm timeout started at arming changes neither the
\* label nor the style nor the armed marker of the control.
C26_InFlightDeleteKeepsLabel ==
  /\ [](deleteReqs > 0 => (deleteBtn.disabled /\ deleteBtn.text = "Deleting..."))
  /\ [][(deleteReqs > 0 /\ ev' = "disarm") => deleteBtn' = deleteBtn]_vars

(***************************************************************************)
(* Claims about the toast.                                                 *)
(***************************************************************************)

\* C27: a toast stays visible for the 4000 ms that follow the showToast call
\* that displayed it: as long as the hide timeout of the latest call (the
\* last one of toastTimers) has time left, the toast is displayed.
C27_ToastVisibleForFourSeconds ==
  (toastTimers # <<>> /\ toastTimers[Len(toastTimers)] > 0) => toast.display = "block"

(***************************************************************************)
(* Claims about the removal of a schedule.                                 *)
(***************************************************************************)

\* C28: removeSchedule leaves the time input and the day checkboxes of the
\* row as they were when the removal did not succeed (ok:false or a
\* transport error), and clears them only when the server confirmed the
\* removal.
C28_FailedRemoveKeepsForm ==
  [][ev' \in {"removeSchedule.notok", "removeSchedule.error"} => schedForm' = schedForm]_vars

(***************************************************************************)
(* Claims about the controls a page renders.                               *)
(***************************************************************************)

\* C30: the rendered controls are a function of the lifecycle state in which
\* Creating takes precedence over Running: a workspace that is being created
\* has no start, stop, delete or duplicate control, no bulk-selection
\* checkbox, no terminal connect control and no stream control, on either
\* page and whatever its running flag; a running workspace that is not being
\* created has Stop and not Start; a stopped one has Start and not Stop, and
\* no terminal or stream control.
C30_CreatingTakesPrecedence ==
  /\ wsCreating =>
       /\ ~HasStart /\ ~HasStop /\ ~HasDelete /\ ~HasDuplicate
       /\ ~HasCheckbox
       /\ ~HasTerminalCard
       /\ ~HasStreamButton
  /\ (~wsCreating /\ Running) => (HasStop /\ ~HasStart)
  /\ (~wsCreating /\ ~Running) => (HasStart /\ ~HasStop /\ ~HasTerminalCard /\ ~HasStreamButton)

====
